---- MODULE Spec2Model ----
(***************************************************************************)
(* The render stage of amethyst_renderer: StageBuilder (with_pass,         *)
(* enabled, finish), Stage (toggle_enabled, encoders_required, apply) and  *)
(* PassBuilder::finish.  Stage::apply is modelled step by step: the        *)
(* driving thread walks the passes in order, a Model pass forks one worker *)
(* per (chunk, encoder) pair of the zip and joins them before going on.    *)
(* SpecInput is the InputHandler of ecs/resources/input.rs, SpecClear the  *)
(* ClearTarget pass of renderer/src/pass/clear.rs and SpecDraw the model   *)
(* closures of the DrawFlat and DrawShaded passes; each specification      *)
(* leaves the variables of the other parts at their initial values.        *)
(***************************************************************************)
EXTENDS Integers, Sequences, FiniteSets, TLC

\* ---------------------------------------------------------------- bounds
MaxPasses == 3
MaxJobs == 3
MaxModels == 3
MaxEncoders == 5
NumKeys == 2
MaxKeyList == 2
MaxColorBufs == 2
MaxLights == 2
MaxDraws == 2
NumDrawModels == 2

\* ---------------------------------------------------------------- inputs
\* Target names a StageBuilder may be created with; "" is the name
\* Stage::with_backbuffer passes to StageBuilder::new.
TargetNames == {"", "main", "shadow"}

\* The Targets registries a stage is finished against.
Registries == {{"main"}, {"", "main"}}

\* The PassBuilder variants; eb is the outcome EffectBuilder::finish will have.
PassBuilders ==
    {[kind |-> "Basic", eb |-> "none"]}
    \cup {[kind |-> k, eb |-> e] : k \in {"Model", "Simple"}, e \in {"ok", "bad"}}

VARIABLES
    targets,        \* the Targets registry: the set of registered names
    phase,          \* "building" | "built" | "failed"
    builder,        \* StageBuilder: [enabled, passes, target_name]
    last_enabled,  \* the value of the last StageBuilder::enabled call, if any
    result,         \* what StageBuilder::finish returned: [tag, name]
    pb_finished,    \* ids of the PassBuilders whose finish was called, in order
    eb_finished,    \* ids of the passes whose EffectBuilder::finish was called
    stage,          \* Stage: [enabled, passes, target]
    toggles,        \* TRUE iff toggle_enabled was called an odd number of times
    pc,             \* position of Stage::apply
    jobs_count,     \* apply's jobs_count argument
    scene,          \* the models of apply's scene argument
    encoders,       \* the encoder array given to apply: one command log each
    first,          \* how many encoders of the array lie before the slice `encoders`
    pi,             \* index of the pass the loop of apply is at
    started,        \* ids of the passes apply has started, in order
    ended,          \* ids of the passes apply has completed, in order
    chunks,         \* the chunks par_chunks_models yielded for the running Model pass
    workers,        \* the (chunk, encoder) pairs of the zip: [pass, enc, todo]
    pressed_keys,   \* InputHandler.pressed_keys: key -> query state, pressed keys only
    held,           \* keys with a Pressed event and no Released / Focused(false) since
    fired,          \* keys for which key_once returned true since they were last let go
    once_list,      \* the key list of the latest keys_once that returned true, while
                    \* none of its keys was let go
    last_op,        \* the handler's last operation, its result and the state before it
    clear_pass,     \* ClearTarget: [color_val, depth_val], each <<>> (None) or <<v>>
    clear_target,   \* the Target given to ClearTarget::apply: [color_bufs, depth_buf]
    clear_enc,      \* the commands ClearTarget::apply recorded into its encoder
    clear_pc,       \* "new" | "applied"
    draw_scene,     \* the scene snapshot of the draw closures: [camera, lights]
    draw_effect,    \* the Effect of the draw pass: [pass, pso_data, target]
    draw_log        \* one entry per closure invocation: [model, steps]

stageVars == <<targets, phase, builder, last_enabled, result, pb_finished,
               eb_finished, stage, toggles, pc, jobs_count, scene, encoders, first,
               pi, started, ended, chunks, workers>>

inputVars == <<pressed_keys, held, fired, once_list, last_op>>

clearVars == <<clear_pass, clear_target, clear_enc, clear_pc>>

drawVars == <<draw_scene, draw_effect, draw_log>>

vars == <<stageVars, inputVars, clearVars, drawVars>>

\* What the stage leaves alone.
otherVars == <<inputVars, clearVars, drawVars>>

\* What the input handler leaves alone.
inputRest == <<stageVars, clearVars, drawVars>>

\* What the clear pass leaves alone.
clearRest == <<stageVars, inputVars, drawVars>>

\* What the draw closures leave alone.
drawRest == <<stageVars, inputVars, clearVars>>

buildVars == <<targets, phase, builder, last_enabled, result, pb_finished,
               eb_finished>>

frameVars == <<pc, jobs_count, scene, encoders, first, pi, started,
               ended, chunks, workers>>

\* ---------------------------------------------------------------- helpers
Min(a, b) == IF a < b THEN a ELSE b

Max(a, b) == IF a < b THEN b ELSE a

\* No Stage exists (before finish, or after a failed finish).
NoStage == [enabled |-> FALSE, passes |-> <<>>, target |-> "<none>"]

NoResult == [tag |-> "none", name |-> ""]

\* StageBuilder::new
StageBuilderNew(target_name) ==
    [enabled |-> TRUE, passes |-> <<>>, target_name |-> target_name]

PushPassFront(passes, pb) ==
    <<[id |-> Len(passes) + 1, kind |-> pb.kind, eb |-> pb.eb]>> \o passes

\* Vec::push of with_pass; the pass carries the ordinal of the with_pass call.
PushPass(passes, pb) ==
    Append(passes, [id |-> Len(passes) + 1, kind |-> pb.kind, eb |-> pb.eb])

TargetsGetOrFirst(reg, name) == reg # {}

\* Targets::get(&name): TRUE iff the registry holds the name.
TargetsGet(reg, name) == name \in reg

PassBuilderFinishModelAsBasic(pb) ==
    CASE pb.kind = "Basic" -> [ok |-> TRUE, pass |-> [id |-> pb.id, kind |-> "Basic"]]
      [] pb.kind = "Model" -> [ok |-> pb.eb = "ok", pass |-> [id |-> pb.id, kind |-> "Basic"]]
      [] pb.kind = "Simple" -> [ok |-> pb.eb = "ok", pass |-> [id |-> pb.id, kind |-> "Simple"]]

\* PassBuilder::finish: the Pass of the same variant, or the effect's error.
PassBuilderFinish(pb) ==
    CASE pb.kind = "Basic" -> [ok |-> TRUE, pass |-> [id |-> pb.id, kind |-> "Basic"]]
      [] pb.kind = "Model" -> [ok |-> pb.eb = "ok", pass |-> [id |-> pb.id, kind |-> "Model"]]
      [] pb.kind = "Simple" -> [ok |-> pb.eb = "ok", pass |-> [id |-> pb.id, kind |-> "Simple"]]

CallsEffectFinishAlways(pb) == TRUE

\* PassBuilder::finish calls EffectBuilder::finish for Model and Simple only.
CallsEffectFinish(pb) == pb.kind \in {"Model", "Simple"}

FinishedCountEager(passes) == Len(passes)

\* How many PassBuilders `into_iter().map(finish).collect::<Result<Vec<_>>>()`
\* finishes: collect stops at the first Err.
FinishedCount(passes) ==
    LET bad == {i \in 1..Len(passes) : ~PassBuilderFinish(passes[i]).ok}
    IN  IF bad = {} THEN Len(passes)
        ELSE CHOOSE i \in bad : \A j \in bad : i <= j

\* The order in which finish walks the PassBuilders and collects the passes.
CollectPasses(passes) ==
    [i \in 1..Len(passes) |-> PassBuilderFinish(passes[i]).pass]

ToggledOn(e) == TRUE

\* Stage::toggle_enabled on the flag.
Toggled(e) == ~e

PassWeightSimpleToo(p) ==
    CASE p.kind = "Basic" -> 0
      [] p.kind = "Simple" -> 1
      [] p.kind = "Model" -> 1

\* The weight of a pass in encoders_required.
PassWeight(p) ==
    CASE p.kind = "Basic" -> 0
      [] p.kind = "Simple" -> 0
      [] p.kind = "Model" -> 1

RECURSIVE SumWeights(_)
SumWeights(ps) ==
    IF ps = <<>> THEN 0 ELSE PassWeight(Head(ps)) + SumWeights(Tail(ps))

\* Stage::encoders_required
encoders_required(s, jobs) == SumWeights(s.passes) * (jobs - 1) + 1

EnoughEncodersUnchecked(s, jobs, len) == TRUE

\* The assert at the top of apply.
EnoughEncoders(s, jobs, len) == encoders_required(s, jobs) <= len

\* Scene::par_chunks_models(count): the models cut into contiguous chunks of
\* ceil(len / count) models, in order; at most count chunks.
ChunkSize(models, count) == Max(1, (Len(models) + count - 1) \div count)

par_chunks_models(models, count) ==
    LET size == ChunkSize(models, count)
        n == (Len(models) + size - 1) \div size
    IN  [c \in 1..n |-> SubSeq(models, (c - 1) * size + 1, Min(c * size, Len(models)))]

SplitAtJobs(jobs) == jobs

\* The index split_at_mut is called with in a Model pass.
SplitAt(jobs) == jobs - 1

\* mod_par_iter.zip(touse): pairs chunk c with the c-th encoder of touse, for as
\* long as both last.  Encoders are named by their index in the whole array.
ZipChunks(pass, chs, off, mid) ==
    [c \in 1..Min(Len(chs), mid) |-> [pass |-> pass, enc |-> off + c, todo |-> chs[c]]]

FirstEncoderOfArray(off) == 1

\* The encoder `encoders[0]` of the current slice.
FirstEncoder(off) == off + 1

LeftWholeSlice(off, mid) == off

\* `left` of split_at_mut(mid): how many encoders of the array lie before it.
Left(off, mid) == off + mid

NextModelLast(todo) == todo[Len(todo)]

\* `for model in models`: the next model the chunk yields.
NextModel(todo) == Head(todo)

JoinWithoutWaiting(ws) == TRUE

\* for_each returns once every zipped pair has been processed.
JoinReady(ws) == \A c \in 1..Len(ws) : ws[c].todo = <<>>

ShouldRunAlways(s) == TRUE

\* The `if self.enabled` of apply.
ShouldRun(s) == s.enabled

\* One command recorded into an encoder: which pass, and for which model
\* (0 for a Basic or Simple pass).
Cmd(pass, model) == [pass |-> pass, model |-> model]

Record(encs, e, cmd) == [encs EXCEPT ![e] = Append(@, cmd)]

\* ---------------------------------------------------------------- input handler
Keys == 1..NumKeys

\* The key slices given to keys_down and keys_once.
KeyLists == UNION {[1..n -> Keys] : n \in 0..MaxKeyList}

\* Engine events.  key = 0 is a keyboard event without a key code (None).
Events ==
    {[win |-> TRUE, kind |-> "KeyboardInput", state |-> st, key |-> k] :
         st \in {"Pressed", "Released"}, k \in 0..NumKeys}
    \cup {[win |-> TRUE, kind |-> "Focused", state |-> st, key |-> 0] :
              st \in {"true", "false"}}
    \cup {[win |-> TRUE, kind |-> "Resized", state |-> "", key |-> 0]}
    \cup {[win |-> FALSE, kind |-> k, state |-> "", key |-> 0] : k \in {"Asset", "User"}}

\* InputHandler::new: no key is pressed.
NoKeys == [k \in {} |-> "NotQueried"]

\* HashMap::insert and HashMap::remove on pressed_keys.
MapInsert(m, k, v) == [x \in DOMAIN m \cup {k} |-> IF x = k THEN v ELSE m[x]]

MapRemove(m, k) == [x \in DOMAIN m \ {k} |-> m[x]]

UpdateClearOnAnyFocus(pk, ev) ==
    IF ~ev.win THEN pk
    ELSE IF ev.kind = "KeyboardInput" /\ ev.state = "Pressed" /\ ev.key # 0
         THEN (IF ev.key \in DOMAIN pk THEN pk ELSE MapInsert(pk, ev.key, "NotQueried"))
    ELSE IF ev.kind = "KeyboardInput" /\ ev.state = "Released" /\ ev.key # 0
         THEN MapRemove(pk, ev.key)
    ELSE IF ev.kind = "Focused" THEN NoKeys
    ELSE pk

UpdateRearm(pk, ev) ==
    IF ~ev.win THEN pk
    ELSE IF ev.kind = "KeyboardInput" /\ ev.state = "Pressed" /\ ev.key # 0
         THEN MapInsert(pk, ev.key, "NotQueried")
    ELSE IF ev.kind = "KeyboardInput" /\ ev.state = "Released" /\ ev.key # 0
         THEN MapRemove(pk, ev.key)
    ELSE IF ev.kind = "Focused" /\ ev.state = "false" THEN NoKeys
    ELSE pk

\* InputHandler::update: pressed_keys after the event.
Update(pk, ev) ==
    IF ~ev.win THEN pk
    ELSE IF ev.kind = "KeyboardInput" /\ ev.state = "Pressed" /\ ev.key # 0
         THEN (IF ev.key \in DOMAIN pk THEN pk ELSE MapInsert(pk, ev.key, "NotQueried"))
    ELSE IF ev.kind = "KeyboardInput" /\ ev.state = "Released" /\ ev.key # 0
         THEN MapRemove(pk, ev.key)
    ELSE IF ev.kind = "Focused" /\ ev.state = "false" THEN NoKeys
    ELSE pk

\* InputHandler::key_down
KeyDown(pk, k) == k \in DOMAIN pk

\* InputHandler::keys_down
KeysDown(pk, keys) == \A i \in 1..Len(keys) : KeyDown(pk, keys[i])

KeyOnceNoMark(pk, k) ==
    IF k \notin DOMAIN pk THEN [ret |-> FALSE, map |-> pk]
    ELSE IF pk[k] = "NotQueried" THEN [ret |-> TRUE, map |-> pk]
    ELSE [ret |-> FALSE, map |-> pk]

\* InputHandler::key_once: the value returned and pressed_keys afterwards.
KeyOnce(pk, k) ==
    IF k \notin DOMAIN pk THEN [ret |-> FALSE, map |-> pk]
    ELSE IF pk[k] = "NotQueried"
         THEN [ret |-> TRUE, map |-> [pk EXCEPT ![k] = "Queried"]]
    ELSE [ret |-> FALSE, map |-> pk]

\* keys.iter().any(|k| self.key_once(*k)): key_once is called key by key until
\* one call returns true.  hit is the set of keys whose call returned true.
RECURSIVE AnyKeyOnce(_, _)
AnyKeyOnce(pk, keys) ==
    IF keys = <<>> THEN [ret |-> FALSE, map |-> pk, hit |-> {}]
    ELSE LET r == KeyOnce(pk, Head(keys))
         IN  IF r.ret THEN [ret |-> TRUE, map |-> r.map, hit |-> {Head(keys)}]
             ELSE AnyKeyOnce(r.map, Tail(keys))

\* InputHandler::keys_once
KeysOnce(pk, keys) ==
    LET a == AnyKeyOnce(pk, keys)
    IN  [ret |-> a.ret /\ KeysDown(a.map, keys), map |-> a.map, hit |-> a.hit]

\* The keys an event lets go, as the event stream tells it.
LetGo(ev) ==
    IF ~ev.win THEN {}
    ELSE IF ev.kind = "KeyboardInput" /\ ev.state = "Released" /\ ev.key # 0
         THEN {ev.key}
    ELSE IF ev.kind = "Focused" /\ ev.state = "false" THEN Keys
    ELSE {}

\* The keys an event presses, as the event stream tells it.
Pressed(ev) ==
    IF ev.win /\ ev.kind = "KeyboardInput" /\ ev.state = "Pressed" /\ ev.key # 0
    THEN {ev.key} ELSE {}

NoEvent == [win |-> FALSE, kind |-> "none", state |-> "", key |-> 0]

\* hit: the keys for which a key_once call of the operation returned true.
NoOp == [op |-> "none", ev |-> NoEvent, keys |-> <<>>, ret |-> FALSE, hit |-> {},
         before |-> NoKeys, was_fired |-> {}, was_once |-> <<>>]

idleInput ==
    /\ pressed_keys = NoKeys
    /\ held = {}
    /\ fired = {}
    /\ once_list = <<>>
    /\ last_op = NoOp

\* InputHandler::update
update(ev) ==
    /\ pressed_keys' = Update(pressed_keys, ev)
    /\ held' = (held \ LetGo(ev)) \cup Pressed(ev)
    /\ fired' = fired \ LetGo(ev)
    /\ once_list' = IF \E i \in 1..Len(once_list) : \E j \in 1..Len(once_list[i]) :
                           once_list[i][j] \in LetGo(ev)
                    THEN <<>> ELSE once_list
    /\ last_op' = [NoOp EXCEPT !.op = "update", !.ev = ev, !.before = pressed_keys,
                               !.was_fired = fired, !.was_once = once_list]
    /\ UNCHANGED inputRest

\* InputHandler::key_once
key_once(k) ==
    LET r == KeyOnce(pressed_keys, k)
    IN  /\ pressed_keys' = r.map
        /\ fired' = IF r.ret THEN fired \cup {k} ELSE fired
        /\ last_op' = [NoOp EXCEPT !.op = "key_once", !.keys = <<k>>, !.ret = r.ret,
                                   !.hit = IF r.ret THEN {k} ELSE {},
                                   !.before = pressed_keys, !.was_fired = fired,
                                   !.was_once = once_list]
        /\ UNCHANGED <<held, once_list>>
        /\ UNCHANGED inputRest

\* InputHandler::keys_once
keys_once(keys) ==
    LET r == KeysOnce(pressed_keys, keys)
    IN  /\ pressed_keys' = r.map
        /\ fired' = fired \cup r.hit
        /\ once_list' = IF r.ret THEN <<keys>> ELSE once_list
        /\ last_op' = [NoOp EXCEPT !.op = "keys_once", !.keys = keys, !.ret = r.ret,
                                   !.hit = r.hit,
                                   !.before = pressed_keys, !.was_fired = fired,
                                   !.was_once = once_list]
        /\ UNCHANGED held
        /\ UNCHANGED inputRest

\* ---------------------------------------------------------------- clear pass
\* Option values: <<>> is None, <<v>> is Some(v).
ColorVals == {<<>>, <<"black">>, <<"red">>}

\* Depth values in tenths: 0.0, 0.5, 1.0 and 2.5.
DepthVals == {<<>>, <<0>>, <<5>>, <<10>>, <<25>>}

\* `val as u8` of a depth value given in tenths: the cast drops the fraction.
AsU8(d) == d \div 10

\* The targets: color buffers 1..n and at most one depth buffer.
ClearTargets ==
    {[color_bufs |-> [i \in 1..n |-> i], depth_buf |-> d] :
         n \in 0..MaxColorBufs, d \in {<<>>, <<"depth">>}}

\* ClearTarget::with_values
with_values(color_val, depth_val) == [color_val |-> color_val, depth_val |-> depth_val]

ColorClearsFirstOnly(pass, target) ==
    IF pass.color_val # <<>> /\ target.color_bufs # <<>>
    THEN <<[cmd |-> "clear", buf |-> 1, val |-> pass.color_val[1]]>>
    ELSE <<>>

\* ClearTarget::apply, lines 40-44: one color clear per color buffer.
ColorClears(pass, target) ==
    IF pass.color_val # <<>>
    THEN [i \in 1..Len(target.color_bufs) |->
              [cmd |-> "clear", buf |-> target.color_bufs[i], val |-> pass.color_val[1]]]
    ELSE <<>>

\* ClearTarget::apply, lines 46-51: the depth and the stencil clear.
DepthClears(pass, target) ==
    IF pass.depth_val # <<>> /\ target.depth_buf # <<>>
    THEN <<[cmd |-> "clear_depth", buf |-> target.depth_buf[1], val |-> pass.depth_val[1]],
           [cmd |-> "clear_stencil", buf |-> target.depth_buf[1],
            val |-> AsU8(pass.depth_val[1])]>>
    ELSE <<>>

\* ClearTarget::apply: the commands it records, in order.
ClearApply(pass, target) == ColorClears(pass, target) \o DepthClears(pass, target)

idleClear ==
    /\ clear_pass = with_values(<<>>, <<>>)
    /\ clear_target = [color_bufs |-> <<>>, depth_buf |-> <<>>]
    /\ clear_enc = <<>>
    /\ clear_pc = "new"

\* ClearTarget::apply
clear_apply ==
    /\ clear_pc = "new"
    /\ clear_enc' = clear_enc \o ClearApply(clear_pass, clear_target)
    /\ clear_pc' = "applied"
    /\ UNCHANGED <<clear_pass, clear_target>>
    /\ UNCHANGED clearRest

\* ---------------------------------------------------------------- draw closures
\* Matrix4::one()
Identity == <<"one">>

\* Matrix4::look_at(cam.eye, cam.eye + cam.forward, cam.up)
LookAt(cam) == <<"look_at", cam.eye, cam.eye + cam.forward, cam.up>>

\* The cameras a scene may have; points and vectors are numbers.
Cameras ==
    {[proj |-> <<"proj", p>>, eye |-> e, forward |-> 1, up |-> 1] : p \in 1..2, e \in 1..2}

\* scene.active_camera(): <<>> (None) or <<cam>>.
CameraOptions == {<<>>} \cup {<<cam>> : cam \in Cameras}

\* Light variants; "Other" is any variant that is neither Directional nor Point.
LightKinds == {"Directional", "Point", "Other"}

\* scene.lights(): light i of the scene is [kind, id |-> i].
LightLists ==
    UNION {{[i \in 1..n |-> [kind |-> ks[i], id |-> i]] : ks \in [1..n -> LightKinds]} :
               n \in 0..MaxLights}

\* The element counts the effect of DrawShaded declares for its light buffers.
PointLightsCapacity == 512

DirectionalLightCapacity == 16

\* A scene with one Directional light more than the DirectionalLight buffer holds.
ManyDirectional ==
    [i \in 1..(DirectionalLightCapacity + 1) |-> [kind |-> "Directional", id |-> i]]

\* A scene with one Point light more than the PointLights buffer holds.
ManyPoint ==
    [i \in 1..(PointLightsCapacity + 1) |-> [kind |-> "Point", id |-> i]]

\* The light lists of the scenes drawn.
SceneLights == LightLists \cup {ManyDirectional, ManyPoint}

\* The models: model m has transform <<"pos", m>>, mesh m and material m.
DrawModels == 1..NumDrawModels

\* target.color_buf(0): <<>> (None) or the buffer's output view.
ColorBuf0Options == {<<>>, <<<<"output", "color0", 0>>>>}

\* The binding set (pso_data) of an effect before any draw.
EmptyData == [const_bufs |-> <<>>, globals |-> <<>>, samplers |-> <<>>,
              textures |-> <<>>, vertex_bufs |-> <<>>, out_colors |-> <<>>]

\* The static binding sets an effect may have been finalized with.
StaticDatas == {EmptyData, [EmptyData EXCEPT !.globals = <<<<"global", "static", 0>>>>]}

\* One step of a closure: an encoder command or a push onto the binding set.
CmdStep(name, arg) == [t |-> "cmd", name |-> name, arg |-> arg]

PushStep(list, arg) == [t |-> "push", name |-> list, arg |-> arg]

\* Vec::push on one list of the binding set.
PushData(data, list, arg) ==
    CASE list = "const_bufs" -> [data EXCEPT !.const_bufs = Append(@, arg)]
      [] list = "globals" -> [data EXCEPT !.globals = Append(@, arg)]
      [] list = "samplers" -> [data EXCEPT !.samplers = Append(@, arg)]
      [] list = "textures" -> [data EXCEPT !.textures = Append(@, arg)]
      [] list = "vertex_bufs" -> [data EXCEPT !.vertex_bufs = Append(@, arg)]
      [] list = "out_colors" -> [data EXCEPT !.out_colors = Append(@, arg)]

\* The binding set after the pushes among the steps, starting from data.
RECURSIVE ApplyPushes(_, _)
ApplyPushes(data, steps) ==
    IF steps = <<>> THEN data
    ELSE ApplyPushes(IF Head(steps).t = "push"
                     THEN PushData(data, Head(steps).name, Head(steps).arg)
                     ELSE data,
                     Tail(steps))

VertexArgsModelIdentityToo(sc, m) ==
    IF sc.camera # <<>>
    THEN [proj |-> sc.camera[1].proj, view |-> LookAt(sc.camera[1]),
          model |-> <<"pos", m>>]
    ELSE [proj |-> Identity, view |-> Identity, model |-> Identity]

\* The VertexArgs of one draw (flat.rs 109-117, shaded.rs 129-137).
VertexArgs(sc, m) ==
    IF sc.camera # <<>>
    THEN [proj |-> sc.camera[1].proj, view |-> LookAt(sc.camera[1]),
          model |-> <<"pos", m>>]
    ELSE [proj |-> Identity, view |-> Identity, model |-> <<"pos", m>>]

\* out_colors.extend(out.color_buf(0).map(..)): one push if the buffer exists.
OutColorSteps(target) ==
    IF target = <<>> THEN <<>> ELSE <<PushStep("out_colors", target[1])>>

\* shaded.rs 148-151 and 152-157: the structs pushed for the lights of a kind.
IsPointOrOther(l) == l.kind # "Directional"

IsPoint(l) == l.kind = "Point"

IsDirectional(l) == l.kind = "Directional"

PointLights(lights) ==
    LET sel == SelectSeq(lights, IsPoint)
    IN  [i \in 1..Len(sel) |-> <<"point", sel[i].id>>]

DirectionalLights(lights) ==
    LET sel == SelectSeq(lights, IsDirectional)
    IN  [i \in 1..Len(sel) |-> <<"directional", sel[i].id>>]

\* The material channels of shaded.rs 185-204, in the order they are pushed.
Channels == <<"roughness", "caveat", "metallic", "emission", "ambient_occlusion",
              "albedo", "normal">>

SamplerTextureStepsSamplersFirst(m) ==
    [i \in 1..(2 * Len(Channels)) |->
         IF i <= Len(Channels) THEN PushStep("samplers", <<"sampler", Channels[i], 0>>)
         ELSE PushStep("textures", <<"texture", Channels[i - Len(Channels)], m>>)]

SamplerTextureSteps(m) ==
    [i \in 1..(2 * Len(Channels)) |->
         IF i % 2 = 1 THEN PushStep("samplers", <<"sampler", Channels[(i + 1) \div 2], 0>>)
         ELSE PushStep("textures", <<"texture", Channels[i \div 2], m>>)]

\* The steps of the DrawFlat closure before its draw call (flat.rs 109-129).
FlatSteps(effect, sc, m) ==
    <<CmdStep("update_constant_buffer", <<"VertexArgs", VertexArgs(sc, m)>>),
      PushStep("const_bufs", <<"const_buf", "VertexArgs", 0>>),
      PushStep("vertex_bufs", <<"vertex", "", m>>),
      PushStep("samplers", <<"sampler", "albedo", 0>>),
      PushStep("textures", <<"texture", "albedo", m>>)>>
    \o OutColorSteps(effect.target)

\* The steps of the DrawShaded closure before its draw call (shaded.rs 127-209).
ShadedSteps(effect, sc, m) ==
    <<CmdStep("update_constant_buffer", <<"VertexArgs", VertexArgs(sc, m)>>),
      PushStep("const_bufs", <<"const_buf", "VertexArgs", 0>>),
      CmdStep("update_constant_buffer",
              <<"FragmentArgs",
                [point_light_count |-> Len(PointLights(sc.lights)),
                 directional_light_count |-> Len(DirectionalLights(sc.lights))]>>),
      CmdStep("update_buffer", <<"PointLights", PointLights(sc.lights)>>),
      CmdStep("update_buffer", <<"DirectionalLight", DirectionalLights(sc.lights)>>),
      PushStep("const_bufs", <<"const_buf", "FragmentArgs", 0>>),
      PushStep("const_bufs", <<"const_buf", "PointLights", 0>>),
      PushStep("const_bufs", <<"const_buf", "DirectionalLight", 0>>),
      PushStep("globals", <<"global", "ambient_color", 0>>),
      PushStep("globals", <<"global", "camera_position",
                            IF sc.camera # <<>> THEN sc.camera[1].eye ELSE 0>>)>>
    \o SamplerTextureSteps(m)
    \o <<PushStep("vertex_bufs", <<"vertex", "", m>>)>>
    \o OutColorSteps(effect.target)

\* The closure of the effect's pass: its steps, then the draw call with the
\* binding set cloned from the effect and extended by the pushes.
ClosureSteps(effect, sc, m) ==
    LET steps == IF effect.pass = "flat" THEN FlatSteps(effect, sc, m)
                 ELSE ShadedSteps(effect, sc, m)
    IN  steps \o <<CmdStep("draw", <<"slice", m, ApplyPushes(effect.pso_data, steps)>>)>>

EffectSharesData(effect, steps) ==
    [effect EXCEPT !.pso_data = ApplyPushes(@, steps)]

\* The effect after an invocation: `data` is a clone, the effect is not written.
EffectAfterDraw(effect, steps) == effect

idleDraw ==
    /\ draw_scene = [camera |-> <<>>, lights |-> <<>>]
    /\ draw_effect = [pass |-> "flat", pso_data |-> EmptyData, target |-> <<>>]
    /\ draw_log = <<>>

\* One invocation of the model closure (ModelPass::apply).
draw_invoke(m) ==
    /\ Len(draw_log) < MaxDraws
    /\ LET steps == ClosureSteps(draw_effect, draw_scene, m)
       IN  /\ draw_log' = Append(draw_log, [model |-> m, steps |-> steps])
           /\ draw_effect' = EffectAfterDraw(draw_effect, steps)
    /\ UNCHANGED draw_scene
    /\ UNCHANGED drawRest

\* ---------------------------------------------------------------- Init
idleFrame ==
    /\ pc = "idle"
    /\ jobs_count = 1
    /\ scene = <<>>
    /\ encoders = <<>>
    /\ first = 0
    /\ pi = 1
    /\ started = <<>>
    /\ ended = <<>>
    /\ chunks = <<>>
    /\ workers = <<>>

Init ==
    /\ targets \in Registries
    /\ phase = "building"
    /\ \E name \in TargetNames : builder = StageBuilderNew(name)
    /\ last_enabled = <<>>
    /\ result = NoResult
    /\ pb_finished = <<>>
    /\ eb_finished = <<>>
    /\ stage = NoStage
    /\ toggles = FALSE
    /\ idleFrame
    /\ idleInput
    /\ idleClear
    /\ idleDraw

\* ---------------------------------------------------------------- builder
\* StageBuilder::with_pass
with_pass(pb) ==
    /\ phase = "building"
    /\ Len(builder.passes) < MaxPasses
    /\ builder' = [builder EXCEPT !.passes = PushPass(@, pb)]
    /\ UNCHANGED <<targets, phase, last_enabled, result, pb_finished, eb_finished,
                   stage, toggles>>
    /\ UNCHANGED frameVars
    /\ UNCHANGED otherVars

\* StageBuilder::enabled
set_enabled(val) ==
    /\ phase = "building"
    /\ builder' = [builder EXCEPT !.enabled = val]
    /\ last_enabled' = <<val>>
    /\ UNCHANGED <<targets, phase, result, pb_finished, eb_finished, stage, toggles>>
    /\ UNCHANGED frameVars
    /\ UNCHANGED otherVars

\* StageBuilder::finish
finish ==
    /\ phase = "building"
    /\ IF ~TargetsGet(targets, builder.target_name)
       THEN /\ result' = [tag |-> "NoSuchTarget", name |-> builder.target_name]
            /\ phase' = "failed"
            /\ UNCHANGED <<pb_finished, eb_finished, stage>>
       ELSE LET n == FinishedCount(builder.passes)
                done == SubSeq(builder.passes, 1, n)
            IN  /\ pb_finished' = [i \in 1..n |-> done[i].id]
                /\ eb_finished' =
                       [i \in 1..Len(SelectSeq(done, CallsEffectFinish)) |->
                            SelectSeq(done, CallsEffectFinish)[i].id]
                /\ IF n = Len(builder.passes) /\ (n = 0 \/ PassBuilderFinish(done[n]).ok)
                   THEN /\ stage' = [enabled |-> builder.enabled,
                                     passes |-> CollectPasses(builder.passes),
                                     target |-> builder.target_name]
                        /\ result' = [tag |-> "Ok", name |-> builder.target_name]
                        /\ phase' = "built"
                   ELSE /\ result' = [tag |-> "EffectError", name |-> builder.target_name]
                        /\ phase' = "failed"
                        /\ UNCHANGED stage
    /\ UNCHANGED <<targets, builder, last_enabled, toggles>>
    /\ UNCHANGED frameVars
    /\ UNCHANGED otherVars

\* ---------------------------------------------------------------- stage
\* Stage::toggle_enabled; it takes &mut self, so no apply is running.
toggle_enabled ==
    /\ phase = "built"
    /\ pc = "idle"
    /\ stage' = [stage EXCEPT !.enabled = Toggled(@)]
    /\ toggles' = ~toggles
    /\ UNCHANGED buildVars
    /\ UNCHANGED frameVars
    /\ UNCHANGED otherVars

\* Stage::apply, lines 51-57: entry, the enabled test and the encoder-count assert.
apply_begin(len, jobs, nmodels) ==
    /\ phase = "built"
    /\ pc = "idle"
    /\ jobs_count' = jobs
    /\ scene' = [m \in 1..nmodels |-> m]
    /\ encoders' = [e \in 1..len |-> <<>>]
    /\ first' = 0
    /\ pi' = 1
    /\ started' = <<>>
    /\ ended' = <<>>
    /\ chunks' = <<>>
    /\ workers' = <<>>
    /\ pc' = IF ~ShouldRun(stage) THEN "returned"
             ELSE IF EnoughEncoders(stage, jobs, len) THEN "loop"
             ELSE "panicked"
    /\ UNCHANGED buildVars
    /\ UNCHANGED <<stage, toggles>>
    /\ UNCHANGED otherVars

\* Lines 62-63: a Basic or Simple pass, applied to encoders[0] on the driving thread.
apply_serial_pass ==
    /\ pc = "loop"
    /\ pi <= Len(stage.passes)
    /\ stage.passes[pi].kind \in {"Basic", "Simple"}
    /\ IF first >= Len(encoders)
       THEN /\ pc' = "panicked"
            /\ UNCHANGED <<encoders, pi, started, ended>>
       ELSE /\ encoders' = Record(encoders, FirstEncoder(first),
                                  Cmd(stage.passes[pi].id, 0))
            /\ started' = Append(started, stage.passes[pi].id)
            /\ ended' = Append(ended, stage.passes[pi].id)
            /\ pi' = pi + 1
            /\ pc' = "loop"
    /\ UNCHANGED buildVars
    /\ UNCHANGED <<stage, toggles, jobs_count, scene, first, chunks,
                   workers>>
    /\ UNCHANGED otherVars

\* Lines 64-76: a Model pass up to the start of for_each.
apply_model_fork ==
    /\ pc = "loop"
    /\ pi <= Len(stage.passes)
    /\ stage.passes[pi].kind = "Model"
    /\ LET chs == par_chunks_models(scene, jobs_count)
           avail == Len(encoders) - first
       IN  IF avail < Len(chs) \/ SplitAt(jobs_count) > avail
           THEN /\ pc' = "panicked"
                /\ UNCHANGED <<started, chunks, workers>>
           ELSE /\ chunks' = chs
                /\ workers' = ZipChunks(stage.passes[pi].id, chs, first, SplitAt(jobs_count))
                /\ started' = Append(started, stage.passes[pi].id)
                /\ pc' = "join"
    /\ UNCHANGED buildVars
    /\ UNCHANGED <<stage, toggles, jobs_count, scene, encoders, first,
                   pi, ended>>
    /\ UNCHANGED otherVars

\* Lines 77-79: one worker applies the pass to the next model of its chunk.
apply_model_step(c) ==
    /\ c \in 1..Len(workers)
    /\ workers[c].todo # <<>>
    /\ encoders' = Record(encoders, workers[c].enc,
                          Cmd(workers[c].pass, NextModel(workers[c].todo)))
    /\ workers' = [workers EXCEPT ![c].todo = Tail(@)]
    /\ UNCHANGED buildVars
    /\ UNCHANGED <<stage, toggles, pc, jobs_count, scene, first, pi,
                   started, ended, chunks>>
    /\ UNCHANGED otherVars

\* Lines 80-82: for_each has returned; the rest of the slice becomes `encoders`.
apply_model_join ==
    /\ pc = "join"
    /\ JoinReady(workers)
    /\ first' = Left(first, SplitAt(jobs_count))
    /\ ended' = Append(ended, stage.passes[pi].id)
    /\ pi' = pi + 1
    /\ pc' = "loop"
    /\ UNCHANGED buildVars
    /\ UNCHANGED <<stage, toggles, jobs_count, scene, encoders, started,
                   chunks, workers>>
    /\ UNCHANGED otherVars

\* Line 87: the loop is over, apply returns the remaining slice.
apply_return ==
    /\ pc = "loop"
    /\ pi > Len(stage.passes)
    /\ pc' = "returned"
    /\ UNCHANGED buildVars
    /\ UNCHANGED <<stage, toggles, jobs_count, scene, encoders, first,
                   pi, started, ended, chunks, workers>>
    /\ UNCHANGED otherVars

\* The caller is done with the slice apply returned: the frame is over.
frame_end ==
    /\ pc = "returned"
    /\ pc' = "idle"
    /\ jobs_count' = 1
    /\ scene' = <<>>
    /\ encoders' = <<>>
    /\ first' = 0
    /\ pi' = 1
    /\ started' = <<>>
    /\ ended' = <<>>
    /\ chunks' = <<>>
    /\ workers' = <<>>
    /\ UNCHANGED buildVars
    /\ UNCHANGED <<stage, toggles>>
    /\ UNCHANGED otherVars

\* apply is called with jobs_count >= 1: `jobs_count - 1` is a usize.
Next ==
    \/ \E pb \in PassBuilders : with_pass(pb)
    \/ \E val \in BOOLEAN : set_enabled(val)
    \/ finish
    \/ toggle_enabled
    \/ \E len \in 0..MaxEncoders, jobs \in 1..MaxJobs, nmodels \in 0..MaxModels :
           apply_begin(len, jobs, nmodels)
    \/ apply_serial_pass
    \/ apply_model_fork
    \/ \E c \in 1..MaxJobs : apply_model_step(c)
    \/ apply_model_join
    \/ apply_return
    \/ frame_end

Spec == Init /\ [][Next]_vars

\* ---------------------------------------------------------------- SpecInput
\* The stage while another part is running: a builder nothing is done with.
stageParked ==
    /\ targets = {"main"}
    /\ phase = "building"
    /\ builder = StageBuilderNew("main")
    /\ last_enabled = <<>>
    /\ result = NoResult
    /\ pb_finished = <<>>
    /\ eb_finished = <<>>
    /\ stage = NoStage
    /\ toggles = FALSE
    /\ idleFrame

InitInput ==
    /\ stageParked
    /\ idleInput
    /\ idleClear
    /\ idleDraw

NextInput ==
    \/ \E ev \in Events : update(ev)
    \/ \E k \in Keys : key_once(k)
    \/ \E keys \in KeyLists : keys_once(keys)

SpecInput == InitInput /\ [][NextInput]_vars

\* ---------------------------------------------------------------- SpecClear
InitClear ==
    /\ stageParked
    /\ idleInput
    /\ idleDraw
    /\ \E c \in ColorVals, d \in DepthVals : clear_pass = with_values(c, d)
    /\ clear_target \in ClearTargets
    /\ clear_enc = <<>>
    /\ clear_pc = "new"

NextClear == clear_apply

SpecClear == InitClear /\ [][NextClear]_vars

\* ---------------------------------------------------------------- SpecDraw
InitDraw ==
    /\ stageParked
    /\ idleInput
    /\ idleClear
    /\ \E cam \in CameraOptions, ls \in SceneLights :
           draw_scene = [camera |-> cam, lights |-> ls]
    /\ \E p \in {"flat", "shaded"}, t \in ColorBuf0Options, d \in StaticDatas :
           draw_effect = [pass |-> p, pso_data |-> d, target |-> t]
    /\ draw_log = <<>>

NextDraw == \E m \in DrawModels : draw_invoke(m)

SpecDraw == InitDraw /\ [][NextDraw]_vars

\* ---------------------------------------------------------------- properties
\* What the properties below count in a state.
RECURSIVE CountIn(_, _, _)
CountIn(log, pass, model) ==
    IF log = <<>> THEN 0
    ELSE (IF Head(log) = [pass |-> pass, model |-> model] THEN 1 ELSE 0)
         + CountIn(Tail(log), pass, model)

RECURSIVE CountUpTo(_, _, _)
CountUpTo(e, pass, model) ==
    IF e = 0 THEN 0
    ELSE CountIn(encoders[e], pass, model) + CountUpTo(e - 1, pass, model)

\* How often the closure of pass `pass` was invoked for `model`, over all encoders.
Invocations(pass, model) == CountUpTo(Len(encoders), pass, model)

ModelPassIds == {stage.passes[i].id : i \in {j \in 1..Len(stage.passes) :
                                                stage.passes[j].kind = "Model"}}

SerialPassIds == {stage.passes[i].id : i \in {j \in 1..Len(stage.passes) :
                                                 stage.passes[j].kind # "Model"}}

Written == {e \in 1..Len(encoders) : encoders[e] # <<>>}

\* C1: when apply of an enabled stage has returned, every Model pass has been
\* invoked exactly once for every model of the scene (no omission, no duplicate).
C1_EachModelOnce ==
    (phase = "built" /\ pc = "returned" /\ stage.enabled)
        => \A p \in ModelPassIds : \A m \in 1..Len(scene) : Invocations(p, m) = 1

\* C2: finish keeps the passes in the order and number of the with_pass calls,
\* apply starts them in that order, and every pass started before the latest one
\* has completed.
C2_PassOrder ==
    phase = "built" =>
        /\ Len(stage.passes) = Len(builder.passes)
        /\ \A i \in 1..Len(stage.passes) :
               stage.passes[i].id = i /\ stage.passes[i].kind = builder.passes[i].kind
        /\ started = [i \in 1..Len(started) |-> i]
        /\ Len(ended) <= Len(started) /\ Len(started) <= Len(ended) + 1
        /\ ended = SubSeq(started, 1, Len(ended))
        /\ (pc = "returned" /\ stage.enabled) => Len(ended) = Len(stage.passes)

C2_Witness ==
    /\ pc = "returned"
    /\ started = <<1, 2, 3>>
    /\ stage.passes[1].kind = "Basic"
    /\ stage.passes[2].kind = "Model"
    /\ stage.passes[3].kind = "Simple"
    /\ jobs_count = 3
    /\ Len(scene) = 3

\* C3: finish with a target name the registry lacks returns NoSuchTarget with
\* that name and builds nothing: no PassBuilder and no EffectBuilder is finished,
\* no Stage exists.  The backbuffer name "" is no exception.
C3_NoSuchTarget ==
    (phase # "building" /\ builder.target_name \notin targets) =>
        /\ phase = "failed"
        /\ result = [tag |-> "NoSuchTarget", name |-> builder.target_name]
        /\ pb_finished = <<>>
        /\ eb_finished = <<>>
        /\ stage = NoStage

C3_Witness ==
    /\ phase = "failed"
    /\ builder.target_name = ""
    /\ "" \notin targets
    /\ Len(builder.passes) = 2
    /\ builder.passes[1].kind = "Basic"
    /\ builder.passes[2] = [id |-> 2, kind |-> "Model", eb |-> "ok"]

\* C4: encoders_required(jobs_count) = 1 + (number of Model passes) * (jobs_count - 1)
\* for every jobs_count >= 1; it is 1 for jobs_count = 1.
C4_EncodersRequired ==
    phase = "built" =>
        \A jobs \in 1..MaxJobs :
            /\ encoders_required(stage, jobs) = 1 + Cardinality(ModelPassIds) * (jobs - 1)
            /\ jobs = 1 => encoders_required(stage, jobs) = 1

C4_Witness ==
    /\ phase = "built"
    /\ Cardinality(ModelPassIds) = 2
    /\ Cardinality(SerialPassIds) = 1
    /\ encoders_required(stage, 3) = 5
    /\ encoders_required(stage, 1) = 1

\* C5: when an enabled stage is applied with fewer encoders than
\* encoders_required(jobs_count), apply fails at its first check: no pass has
\* started, no worker exists and no encoder holds a command.
C5_TooFewEncoders ==
    (phase = "built" /\ pc # "idle" /\ stage.enabled
     /\ Len(encoders) < encoders_required(stage, jobs_count)) =>
        /\ pc = "panicked"
        /\ started = <<>>
        /\ ended = <<>>
        /\ workers = <<>>
        /\ Written = {}

C5_Witness ==
    /\ pc = "panicked"
    /\ stage.enabled
    /\ jobs_count = 3
    /\ Cardinality(ModelPassIds) = 2
    /\ stage.passes[1].kind = "Basic"
    /\ Len(encoders) = 4
    /\ Len(scene) = 3

\* C6: apply of a disabled stage returns at once with the slice it was given:
\* it never fails, starts no pass, forks no worker and writes to no encoder,
\* however few encoders it got.
C6_DisabledStage ==
    (phase = "built" /\ pc # "idle" /\ ~stage.enabled) =>
        /\ pc = "returned"
        /\ first = 0
        /\ started = <<>>
        /\ ended = <<>>
        /\ workers = <<>>
        /\ Written = {}

C6_Witness ==
    /\ pc = "returned"
    /\ ~stage.enabled
    /\ Len(stage.passes) = 3
    /\ Cardinality(ModelPassIds) = 2
    /\ Len(encoders) = 0
    /\ Len(scene) = 2
    /\ jobs_count = 3

\* C7: the enabled flag is a boolean; a builder on which enabled(..) was never
\* called holds TRUE, otherwise the value of the last call; the stage starts
\* with the builder's flag and every toggle_enabled flips it (an even number of
\* toggles restores it) while the passes and the target stay as built.
C7_EnabledStateMachine ==
    /\ builder.enabled \in BOOLEAN
    /\ builder.enabled = (IF last_enabled = <<>> THEN TRUE ELSE last_enabled[1])
    /\ phase = "built" =>
           /\ stage.enabled \in BOOLEAN
           /\ stage.enabled = (IF toggles THEN ~builder.enabled ELSE builder.enabled)
           /\ stage.target = builder.target_name
           /\ Len(stage.passes) = Len(builder.passes)
           /\ \A i \in 1..Len(stage.passes) :
                  stage.passes[i] = [id |-> builder.passes[i].id,
                                     kind |-> builder.passes[i].kind]

C7_Witness ==
    /\ phase = "built"
    /\ toggles
    /\ last_enabled = <<FALSE>>
    /\ stage.enabled
    /\ pc = "returned"
    /\ Len(started) = 2

\* The Basic and Simple passes that recorded a command into encoder e.
SerialIn(e) == {encoders[e][i].pass : i \in {j \in 1..Len(encoders[e]) :
                                                 encoders[e][j].model = 0}}

\* C8 as stated: all Basic and Simple passes of one apply record into one and
\* the same encoder.
C8_SameSlot ==
    \A e1, e2 \in 1..Len(encoders) :
        (SerialIn(e1) # {} /\ SerialIn(e2) # {}) => e1 = e2

\* C8 amended: a Basic or Simple pass records into the first encoder of the
\* slice that is left when it runs, which is the encoder at index
\* (number of Model passes before it) * (jobs_count - 1) of the array.
C8_FirstOfRemainingSlice ==
    phase = "built" =>
        \A e \in 1..Len(encoders) : \A p \in SerialIn(e) :
            e = 1 + Cardinality({q \in ModelPassIds : q < p}) * (jobs_count - 1)

C8_Witness ==
    /\ pc = "returned"
    /\ jobs_count = 3
    /\ Len(stage.passes) = 3
    /\ Len(encoders) = 5
    /\ SerialIn(1) = {1}
    /\ SerialIn(3) = {3}
    /\ encoders[2] # <<>>

\* C9: every chunk par_chunks_models yields is zipped with an encoder, and the
\* encoders of the zipped chunks are pairwise distinct.
C9_EveryChunkOwnEncoder ==
    pc = "join" =>
        /\ Len(workers) = Len(chunks)
        /\ \A c, d \in 1..Len(workers) : workers[c].enc = workers[d].enc => c = d

\* C10: the driving thread goes on to the next pass, or returns, only when no
\* worker of the Model pass has a model left to draw; a pass counts as completed
\* only then.
C10_JoinBarrier ==
    /\ pc \in {"loop", "returned"} => \A c \in 1..Len(workers) : Len(workers[c].todo) = 0
    /\ \A c \in 1..Len(workers) :
           Len(workers[c].todo) > 0 =>
               (started # <<>> /\ started[Len(started)] = workers[c].pass
                /\ \A i \in 1..Len(ended) : ended[i] # workers[c].pass)

C10_Witness ==
    /\ pc = "loop"
    /\ pi = 2
    /\ Len(stage.passes) = 2
    /\ stage.passes[2].kind = "Simple"
    /\ Len(workers) = 2
    /\ encoders[1] # <<>>
    /\ encoders[2] # <<>>

\* C11 as stated: apply of a built stage never fails, whatever the encoder
\* slice, jobs_count and scene.
C11_ApplyNeverFails == pc # "panicked"

\* C11 amended: apply (called with jobs_count >= 1) fails exactly when the stage
\* is enabled and got fewer encoders than encoders_required(jobs_count); it
\* fails at no other point.
C11_FailsOnlyOnPrecondition ==
    (phase = "built" /\ pc # "idle") =>
        (pc = "panicked"
            <=> (stage.enabled /\ Len(encoders) < encoders_required(stage, jobs_count)))

C11_Witness ==
    /\ pc = "returned"
    /\ stage.enabled
    /\ jobs_count = 3
    /\ Len(scene) = 3
    /\ Len(stage.passes) = 3
    /\ Cardinality(ModelPassIds) = 2
    /\ stage.passes[3].kind = "Simple"
    /\ Len(encoders) = 5

\* The first PassBuilder of the builder whose EffectBuilder::finish fails (0 if none).
FirstBad ==
    LET bad == {i \in 1..Len(builder.passes) : builder.passes[i].eb = "bad"}
    IN  IF bad = {} THEN 0 ELSE CHOOSE i \in bad : \A j \in bad : i <= j

\* C12: if the EffectBuilder of a Model or Simple PassBuilder fails, finish
\* returns the error and builds no Stage, and the PassBuilders after the first
\* failing one are not finished.
C12_EffectFailureAborts ==
    (phase # "building" /\ builder.target_name \in targets /\ FirstBad # 0) =>
        /\ phase = "failed"
        /\ result.tag = "EffectError"
        /\ stage = NoStage
        /\ pb_finished = [i \in 1..FirstBad |-> builder.passes[i].id]
        /\ \A i \in 1..Len(eb_finished) : eb_finished[i] <= FirstBad

C12_Witness ==
    /\ phase = "failed"
    /\ Len(builder.passes) = 3
    /\ builder.passes[1] = [id |-> 1, kind |-> "Basic", eb |-> "none"]
    /\ builder.passes[2] = [id |-> 2, kind |-> "Simple", eb |-> "bad"]
    /\ builder.passes[3] = [id |-> 3, kind |-> "Model", eb |-> "ok"]
    /\ pb_finished = <<1, 2>>

\* C13: EffectBuilder::finish is called once for each Model and each Simple
\* pass and never for a Basic pass, at build time only: the calls stay what
\* finish made them while frames run.  Each PassBuilder becomes the Pass of its
\* own variant.
C13_EffectFinishedOncePerPass ==
    /\ \A i, j \in 1..Len(eb_finished) : eb_finished[i] = eb_finished[j] => i = j
    /\ \A i \in 1..Len(eb_finished) :
           builder.passes[eb_finished[i]].kind \in {"Model", "Simple"}
    /\ phase = "building" => eb_finished = <<>>
    /\ phase = "built" =>
           /\ {eb_finished[i] : i \in 1..Len(eb_finished)}
                  = {i \in 1..Len(builder.passes) : builder.passes[i].kind # "Basic"}
           /\ \A i \in 1..Len(stage.passes) :
                  stage.passes[i].kind = builder.passes[i].kind

C13_Witness ==
    /\ pc = "returned"
    /\ stage.enabled
    /\ Len(stage.passes) = 3
    /\ stage.passes[1].kind = "Basic"
    /\ stage.passes[2].kind = "Model"
    /\ stage.passes[3].kind = "Simple"
    /\ eb_finished = <<2, 3>>
    /\ Written # {}

\* C16: an enabled stage declared as [Basic, Model], applied with enough
\* encoders to a scene without models, does not fail, records the Basic pass
\* once and never invokes the Model pass.
C16_EmptyScene ==
    (/\ phase = "built"
     /\ pc # "idle"
     /\ stage.enabled
     /\ Len(builder.passes) = 2
     /\ builder.passes[1].kind = "Basic"
     /\ builder.passes[2].kind = "Model"
     /\ scene = <<>>
     /\ Len(encoders) >= jobs_count) =>
        /\ pc # "panicked"
        /\ \A e \in 1..Len(encoders) : \A i \in 1..Len(encoders[e]) :
               encoders[e][i].pass # 2
        /\ pc = "returned" =>
               /\ encoders[1] = <<[pass |-> 1, model |-> 0]>>
               /\ \A e \in 2..Len(encoders) : encoders[e] = <<>>

C16_Witness ==
    /\ pc = "returned"
    /\ stage.enabled
    /\ Len(stage.passes) = 2
    /\ stage.passes[1].kind = "Basic"
    /\ stage.passes[2].kind = "Model"
    /\ scene = <<>>
    /\ jobs_count = 3
    /\ Len(encoders) = 3
    /\ ended = <<1, 2>>

\* C18: key_once(k) returns true only for a pressed key for which no key_once
\* call has returned true since the key was last let go (Released(k) or
\* Focused(false)); a key_once call inside keys_once counts as a call.
C18_KeyOnceAtMostOnce ==
    /\ last_op.hit \cap last_op.was_fired = {}
    /\ last_op.hit \subseteq held
    /\ (last_op.op = "key_once" /\ last_op.keys[1] \notin held) => ~last_op.ret

C18_Witness ==
    /\ last_op.op = "key_once"
    /\ ~last_op.ret
    /\ last_op.keys = <<1>>
    /\ 1 \in held
    /\ 1 \in last_op.was_fired

\* C19: keys_once(keys) returns true only if all keys of the list are pressed,
\* and not again for the same list while none of its keys has been let go.
C19_KeysOnceAtMostOnce ==
    (last_op.op = "keys_once" /\ last_op.ret) =>
        /\ \A i \in 1..Len(last_op.keys) : last_op.keys[i] \in DOMAIN last_op.before
        /\ last_op.was_once # <<last_op.keys>>

\* C20: key_down(k) holds exactly for the keys with a Pressed event and no
\* Released(k) or Focused(false) after it; keys_down holds iff key_down holds
\* for every key of the list; an event that is no window event leaves
\* pressed_keys as it was.
C20_KeyDownFollowsEvents ==
    /\ \A k \in Keys : KeyDown(pressed_keys, k) <=> k \in held
    /\ \A keys \in KeyLists :
           KeysDown(pressed_keys, keys) <=> \A i \in 1..Len(keys) : keys[i] \in held
    /\ (last_op.op = "update" /\ ~last_op.ev.win) => pressed_keys = last_op.before

C20_Witness ==
    /\ last_op.op = "update"
    /\ last_op.ev = [win |-> TRUE, kind |-> "Focused", state |-> "true", key |-> 0]
    /\ held = {1, 2}
    /\ KeysDown(pressed_keys, <<2, 1>>)
    /\ pressed_keys[1] = "Queried"

\* The commands of an invocation, in order.
IsCmd(step) == step.t = "cmd"

Cmds(entry) == SelectSeq(entry.steps, IsCmd)

\* C14: without an active camera the closure of DrawFlat and of DrawShaded
\* uploads VertexArgs with the identity as projection and as view and with the
\* model's own transform, and still ends with its draw call.
C14_NoCameraIdentity ==
    draw_scene.camera = <<>> =>
        \A i \in 1..Len(draw_log) :
            LET cmds == Cmds(draw_log[i])
            IN  /\ cmds[1].name = "update_constant_buffer"
                /\ cmds[1].arg[1] = "VertexArgs"
                /\ cmds[1].arg[2].proj = <<"one">>
                /\ cmds[1].arg[2].view = <<"one">>
                /\ cmds[1].arg[2].model = <<"pos", draw_log[i].model>>
                /\ cmds[Len(cmds)].name = "draw"
                /\ draw_log[i].steps[Len(draw_log[i].steps)].name = "draw"

C14_Witness ==
    /\ draw_scene.camera = <<>>
    /\ Len(draw_log) = 2
    /\ draw_log[1].model = 1
    /\ draw_log[2].model = 2
    /\ draw_effect.pass = "shaded"
    /\ Len(draw_scene.lights) = 2

IsColorClear(c) == c.cmd = "clear"

IsDepthClear(c) == c.cmd = "clear_depth"

IsStencilClear(c) == c.cmd = "clear_stencil"

\* C17: ClearTarget::apply records a color clear for every color buffer of the
\* target iff a color value was given, and a depth clear followed by a stencil
\* clear iff a depth value was given and the target has a depth buffer; with
\* (None, None) it records nothing.
C17_ClearCommands ==
    clear_pc = "applied" =>
        LET colors == SelectSeq(clear_enc, IsColorClear)
            depths == SelectSeq(clear_enc, IsDepthClear)
            stencils == SelectSeq(clear_enc, IsStencilClear)
            n == Len(clear_target.color_bufs)
            depth == clear_pass.depth_val # <<>> /\ clear_target.depth_buf # <<>>
        IN  /\ Len(clear_enc) = Len(colors) + Len(depths) + Len(stencils)
            /\ Len(colors) = (IF clear_pass.color_val # <<>> THEN n ELSE 0)
            /\ clear_pass.color_val # <<>> =>
                   \A b \in 1..n : \E i \in 1..Len(colors) :
                       colors[i].buf = b /\ colors[i].val = clear_pass.color_val[1]
            /\ Len(depths) = (IF depth THEN 1 ELSE 0)
            /\ Len(stencils) = (IF depth THEN 1 ELSE 0)
            /\ depth => /\ depths[1].val = clear_pass.depth_val[1]
                        /\ depths[1].buf = clear_target.depth_buf[1]
                        /\ stencils[1].buf = clear_target.depth_buf[1]
            /\ (clear_pass.color_val = <<>> /\ clear_pass.depth_val = <<>>)
                   => clear_enc = <<>>

C17_Witness ==
    /\ clear_pc = "applied"
    /\ clear_pass = [color_val |-> <<"black">>, depth_val |-> <<10>>]
    /\ Len(clear_target.color_bufs) = 2
    /\ clear_target.depth_buf # <<>>
    /\ Len(clear_enc) = 4

\* The models pass p was invoked for on encoder e, in the order of the log.
ModelsOn(e, p) ==
    LET OfPass(cmd) == cmd.pass = p
        log == SelectSeq(encoders[e], OfPass)
    IN  [i \in 1..Len(log) |-> log[i].model]

\* C21: while a Model pass runs, the invocations recorded for a chunk zipped
\* with an encoder are the models the chunk has yielded so far, in the chunk's
\* order, all on that encoder; and no model of a chunk is drawn by this pass on
\* any encoder but its chunk's.
C21_ChunkOrder ==
    pc = "join" =>
        LET p == stage.passes[pi].id
        IN  /\ \A c \in 1..Len(workers) :
                   ModelsOn(workers[c].enc, p)
                       = SubSeq(chunks[c], 1, Len(chunks[c]) - Len(workers[c].todo))
            /\ \A c \in 1..Len(chunks) : \A e \in 1..Len(encoders) :
                   (\E i \in 1..Len(ModelsOn(e, p)) : \E j \in 1..Len(chunks[c]) :
                        ModelsOn(e, p)[i] = chunks[c][j])
                       => (c <= Len(workers) /\ e = workers[c].enc)

C21_Witness ==
    /\ pc = "join"
    /\ jobs_count = 2
    /\ Len(workers) = 1
    /\ chunks[1] = <<1, 2>>
    /\ workers[1].todo = <<>>
    /\ ModelsOn(workers[1].enc, stage.passes[pi].id) = <<1, 2>>
    /\ pi = 2
    /\ stage.passes[1].kind = "Simple"

\* C26: once the encoder-count assert of an enabled stage has passed, the slice
\* that is left holds at least one encoder before every pass, and at least
\* jobs_count encoders and as many as the scene has chunks before and during
\* every Model pass, so that neither the per-pass assert nor split_at_mut nor
\* encoders[0] can fail; apply fails only with too few encoders and then before
\* its first pass.
C26_NoLaterFailure ==
    /\ (phase = "built" /\ pc \in {"loop", "join"}) =>
           LET avail == Len(encoders) - first
           IN  /\ avail >= 1
               /\ (pi <= Len(stage.passes) /\ stage.passes[pi].kind = "Model") =>
                      /\ avail >= jobs_count
                      /\ avail >= Len(par_chunks_models(scene, jobs_count))
                      /\ jobs_count - 1 <= avail
    /\ pc = "panicked" =>
           /\ started = <<>>
           /\ Len(encoders) < encoders_required(stage, jobs_count)

C26_Witness ==
    /\ pc = "loop"
    /\ jobs_count = 3
    /\ Len(scene) = 3
    /\ Len(encoders) = 5
    /\ first = 2
    /\ pi = 2
    /\ Len(stage.passes) = 2
    /\ stage.passes[2].kind = "Model"

\* C27: apply of an enabled stage returns the suffix of the array that is left
\* after jobs_count - 1 encoders per Model pass were split off its front, which
\* holds at least one encoder; the encoders written by the chunks of a Model
\* pass lie before that suffix and no later pass writes to them.
C27_ReturnedSuffix ==
    /\ (phase = "built" /\ pc = "returned" /\ stage.enabled) =>
           /\ first = Cardinality(ModelPassIds) * (jobs_count - 1)
           /\ Len(encoders) - first >= 1
           /\ \A e \in 1..Len(encoders) :
                  (\E i \in 1..Len(encoders[e]) : encoders[e][i].model # 0) => e <= first
    /\ \A e \in 1..Len(encoders) : \A i, j \in 1..Len(encoders[e]) :
           (i < j /\ encoders[e][i].model # 0)
               => encoders[e][j].pass = encoders[e][i].pass

C27_Witness ==
    /\ pc = "returned"
    /\ stage.enabled
    /\ jobs_count = 3
    /\ Len(encoders) = 5
    /\ first = 4
    /\ Len(stage.passes) = 3
    /\ stage.passes[3].kind = "Basic"
    /\ encoders[1] # <<>>
    /\ encoders[3] # <<>>
    /\ encoders[5] # <<>>

\* C24: a Pressed event for a key that is already pressed leaves pressed_keys
\* as it was, so a key for which key_once has returned true stays Queried, and
\* key_once keeps returning false for it, until it is let go; a Pressed event
\* for a key that is not pressed makes it NotQueried.
C24_RepeatedPressDoesNotRearm ==
    /\ \A k \in fired : k \in DOMAIN pressed_keys /\ pressed_keys[k] = "Queried"
    /\ (last_op.op = "key_once" /\ last_op.keys[1] \in last_op.was_fired) => ~last_op.ret
    /\ \A k \in Keys :
           (last_op.op = "update" /\ Pressed(last_op.ev) = {k}) =>
               IF k \in DOMAIN last_op.before
               THEN pressed_keys = last_op.before
               ELSE pressed_keys[k] = "NotQueried" /\ k \notin fired

C24_Witness ==
    /\ last_op.op = "update"
    /\ Pressed(last_op.ev) = {1}
    /\ 1 \in last_op.was_fired
    /\ 1 \in fired
    /\ pressed_keys[1] = "Queried"

\* C25: right after a Focused(false) event no key is pressed: pressed_keys is
\* empty and key_down and key_once are false for every key; Focused(true) and
\* the release of a key that is not pressed leave pressed_keys as it was.
C25_FocusLostClears ==
    last_op.op = "update" =>
        /\ (last_op.ev.win /\ last_op.ev.kind = "Focused" /\ last_op.ev.state = "false") =>
               /\ DOMAIN pressed_keys = {}
               /\ \A k \in Keys : ~KeyDown(pressed_keys, k) /\ ~KeyOnce(pressed_keys, k).ret
        /\ (last_op.ev.win /\ last_op.ev.kind = "Focused" /\ last_op.ev.state = "true") =>
               pressed_keys = last_op.before
        /\ (last_op.ev.win /\ last_op.ev.kind = "KeyboardInput"
            /\ last_op.ev.state = "Released" /\ last_op.ev.key \notin DOMAIN last_op.before) =>
               pressed_keys = last_op.before

C25_Witness ==
    /\ last_op.op = "update"
    /\ last_op.ev = [win |-> TRUE, kind |-> "Focused", state |-> "false", key |-> 0]
    /\ DOMAIN last_op.before = {1, 2}
    /\ last_op.before[1] = "Queried"
    /\ last_op.before[2] = "NotQueried"
    /\ pressed_keys = NoKeys

\* The pushes of an invocation onto the given lists of the binding set.
PushesOnto(entry, lists) ==
    LET Onto(step) == step.t = "push" /\ step.name \in lists
    IN  SelectSeq(entry.steps, Onto)

\* C22: every invocation of a draw closure issues exactly one draw call, as its
\* last step, after its constant-buffer updates; DrawShaded pushes the constant
\* buffers VertexArgs, FragmentArgs, PointLights, DirectionalLight in this
\* order, and seven sampler/texture pairs, each sampler directly followed by
\* the texture of the same channel of the model's material.
C22_OneDrawAfterUpdates ==
    \A n \in 1..Len(draw_log) :
        LET steps == draw_log[n].steps
            bufs == PushesOnto(draw_log[n], {"const_bufs"})
            pairs == PushesOnto(draw_log[n], {"samplers", "textures"})
        IN  /\ Cardinality({i \in 1..Len(steps) : steps[i].name = "draw"}) = 1
            /\ steps[Len(steps)].name = "draw"
            /\ \E i \in 1..Len(steps) : steps[i].name = "update_constant_buffer"
            /\ draw_effect.pass = "shaded" =>
                   /\ [i \in 1..Len(bufs) |-> bufs[i].arg[2]]
                          = <<"VertexArgs", "FragmentArgs", "PointLights", "DirectionalLight">>
                   /\ Len(pairs) = 14
                   /\ \A i \in 1..7 :
                          /\ pairs[2 * i - 1].name = "samplers"
                          /\ pairs[2 * i].name = "textures"
                          /\ pairs[2 * i - 1].arg[2] = pairs[2 * i].arg[2]
                          /\ pairs[2 * i].arg[3] = draw_log[n].model
                   /\ \A i, j \in 1..7 :
                          pairs[2 * i].arg[2] = pairs[2 * j].arg[2] => i = j

C22_Witness ==
    /\ Len(draw_log) = 2
    /\ draw_effect.pass = "shaded"
    /\ draw_log[1].model = 2
    /\ draw_log[2].model = 1
    /\ Len(draw_log[1].steps) = 27
    /\ draw_effect.target # <<>>

\* The binding set of the draw call of an invocation.
DrawData(entry) == entry.steps[Len(entry.steps)].arg[3]

\* The values an invocation pushed onto its binding set.
Pushed(entry) ==
    {entry.steps[i].arg : i \in {j \in 1..Len(entry.steps) : entry.steps[j].t = "push"}}

\* The values of a binding set, over all its lists.
Bound(data) ==
    UNION {{l[i] : i \in 1..Len(l)} :
               l \in {data.const_bufs, data.globals, data.samplers, data.textures,
                      data.vertex_bufs, data.out_colors}}

\* C23: after any number of invocations the effect's binding set is a static
\* one, as finalization built it: it holds none of the values pushed for a
\* draw, and the binding set of every draw is the effect's static one extended
\* by the pushes of that invocation alone.
C23_EffectUnchanged ==
    /\ draw_effect.pso_data \in StaticDatas
    /\ \A n \in 1..Len(draw_log) :
           /\ Pushed(draw_log[n]) \cap Bound(draw_effect.pso_data) = {}
           /\ Bound(DrawData(draw_log[n]))
                  = Bound(draw_effect.pso_data) \cup Pushed(draw_log[n])
           /\ Len(DrawData(draw_log[n]).globals) >= Len(draw_effect.pso_data.globals)
           /\ SubSeq(DrawData(draw_log[n]).globals, 1, Len(draw_effect.pso_data.globals))
                  = draw_effect.pso_data.globals

C23_Witness ==
    /\ Len(draw_log) = 2
    /\ draw_effect.pso_data.globals = <<<<"global", "static", 0>>>>
    /\ draw_effect.pass = "shaded"
    /\ Len(DrawData(draw_log[2]).globals) = 3
    /\ Len(DrawData(draw_log[2]).const_bufs) = 4

\* C28: the DrawShaded closure never uploads more elements to PointLights than
\* the 512 the buffer is declared with, nor more to DirectionalLight than 16.
C28_LightsWithinCapacity ==
    draw_effect.pass = "shaded" =>
        \A n \in 1..Len(draw_log) :
            LET cmds == Cmds(draw_log[n])
            IN  /\ Len(cmds[3].arg[2]) <= 512
                /\ Len(cmds[4].arg[2]) <= 16

\* C29: in the DrawShaded closure the two counts of FragmentArgs are the
\* numbers of Point and of Directional lights of the scene and the lengths of
\* the two uploaded arrays; each array holds the lights of its kind, each once,
\* in scene order, and no light of another kind.
C29_LightCounts ==
    draw_effect.pass = "shaded" =>
        \A n \in 1..Len(draw_log) :
            LET cmds == Cmds(draw_log[n])
                args == cmds[2].arg[2]
                points == cmds[3].arg[2]
                dirs == cmds[4].arg[2]
                OfKind(kind) == {i \in 1..Len(draw_scene.lights) :
                                     draw_scene.lights[i].kind = kind}
            IN  /\ cmds[2].arg[1] = "FragmentArgs"
                /\ cmds[3].arg[1] = "PointLights"
                /\ cmds[4].arg[1] = "DirectionalLight"
                /\ args.point_light_count = Cardinality(OfKind("Point"))
                /\ args.directional_light_count = Cardinality(OfKind("Directional"))
                /\ Len(points) = args.point_light_count
                /\ Len(dirs) = args.directional_light_count
                /\ {points[i][2] : i \in 1..Len(points)} = OfKind("Point")
                /\ {dirs[i][2] : i \in 1..Len(dirs)} = OfKind("Directional")
                /\ \A i \in 1..(Len(points) - 1) : points[i][2] < points[i + 1][2]
                /\ \A i \in 1..(Len(dirs) - 1) : dirs[i][2] < dirs[i + 1][2]

C29_Witness ==
    /\ draw_effect.pass = "shaded"
    /\ Len(draw_log) = 1
    /\ Len(draw_scene.lights) = 2
    /\ draw_scene.lights[1].kind = "Other"
    /\ draw_scene.lights[2].kind = "Point"
    /\ Cmds(draw_log[1])[2].arg[2].point_light_count = 1
    /\ Cmds(draw_log[1])[3].arg[2] = <<<<"point", 2>>>>

====
